---- MODULE Spec2Model ----
(***************************************************************************)
(* The recursive crawl engine of headful-scrapping: the link deduplicator  *)
(* (combined_crawler.dedupe_links), the folder-name resolver and the       *)
(* recursion controller of HtmlCrawler / IntegratedCrawler                 *)
(* (crawl_url_recursive with its visited set, robots cache and depth       *)
(* bound).                                                                 *)
(*                                                                         *)
(* A Python str is a sequence of one-character strings; the scheme prefix  *)
(* "https://" of a URL is one element of that sequence.  Python's None is  *)
(* the value None below, a missing dict key of a string is Missing; a dict *)
(* of link data is the record [url, has_links, links], has_links telling   *)
(* whether the dict holds the key "links".                                 *)
(***************************************************************************)
EXTENDS Integers, Sequences, FiniteSets, TLC

VARIABLES
    \* ---- dedupe_links (combined_crawler.py)
    d_in,       \* the dict as the caller built it, before any call
    d_data,     \* the caller's dict now (dedupe_links assigns data["links"])
    d_ret,      \* the dict returned by the latest call
    d_prev,     \* the dict returned by the call before
    d_calls,    \* number of dedupe_links calls made on the dict
    \* ---- folder-name resolver (crawler_html.py)
    n_title,    \* content_data.get("title", "")
    n_url,      \* the url of the page
    n_slug,     \* the resolved slug (NotYet before the resolver ran)
    n_via,      \* which branch produced it
    \* ---- HtmlCrawler / IntegratedCrawler (crawler_html.py, integrated_crawler.py)
    site,               \* the web site the run meets
    start_url,          \* the argument of start_crawling
    max_depth,          \* self.max_depth
    respect_robots_txt, \* self.respect_robots_txt
    crawled_urls,       \* self.crawled_urls
    robots_cache,       \* self.robots_cache: base url -> parser
    run,                \* "init", "running", "done", or "crashed" (an exception left start_crawling)
    stack,              \* the active calls of crawl_url_recursive, the root first
    fs,                 \* the output tree: folder -> its two JSON files
    open_drivers,       \* browser drivers started and not yet quit
    faults,             \* errors the environment raised so far
    \* ---- what happened so far (history)
    tasks,              \* every call of crawl_url_recursive: [url, depth, parent]
    fetches,            \* every WebsiteCrawler.crawl: [task, url, depth, ok]
    errors,             \* every error raised: [task, kind, caught_by, dropped]
    checks,             \* every can_fetch under enforcement: [base, url, allowed, after_error]
    events,             \* what the run did, in order: [kind, task, at, ok, ok2]
    \* ---- _download_images / download_media (html_content_extractor.py, media_extractor.py)
    m_images,   \* the image URLs handed to the call, in order
    m_i,        \* the index the loop is at (enumerate)
    m_files,    \* the file names that exist in the images folder
    m_log,      \* every file written: [i, url, file_path, existed]
    \* ---- multi_process.py
    TOTAL_PAGES,    \* highest page index
    WORKERS,        \* number of worker processes
    p_phase,        \* where main is: "overview", "spawn", "join", "done"
    p_w,            \* the loop variable w of main
    p_start,        \* the loop variable start of main
    procs,          \* the processes started: [first, last, page, alive]
    p_crawled,      \* every crawl_page a worker finished: [worker, page]
    p_written,      \* every output folder a crawl saved its files in: [worker, folder]
    \* ---- RecursiveCrawler (recursive_crawler.py)
    r_fs,               \* the tree under start_dir: folder -> its two JSON files
    r_made,             \* the folders that hold an output_links.json, oldest first
    r_order,            \* the order in which rglob yields them: "oldest" or "newest" first
    r_phase,            \* "idle", "start", "loop" or "done"
    links_files,        \* the list the loop of start_recursive_crawling runs over (folders)
    r_pos,              \* how many entries of links_files the loop has taken
    r_crawled_urls,     \* RecursiveCrawler.crawled_urls
    processed_files,    \* RecursiveCrawler.processed_files
    r_listed,           \* the URLs listed in the links files that existed at the start
    r_fetched,          \* every page fetched: [url, depth, root, file]
    r_log               \* the links files processed, in order

dedupeVars == <<d_in, d_data, d_ret, d_prev, d_calls>>
nameVars   == <<n_title, n_url, n_slug, n_via>>
crawlVars  == <<site, start_url, max_depth, respect_robots_txt, crawled_urls, robots_cache,
                run, stack, fs, open_drivers, faults, tasks, fetches, errors, checks, events>>
mediaVars  == <<m_images, m_i, m_files, m_log>>
procVars   == <<TOTAL_PAGES, WORKERS, p_phase, p_w, p_start, procs, p_crawled, p_written>>
recVars    == <<r_fs, r_made, r_order, r_phase, links_files, r_pos, r_crawled_urls, processed_files,
                r_listed, r_fetched, r_log>>
vars       == <<dedupeVars, nameVars, crawlVars, mediaVars, procVars, recVars>>

None    == <<"None">>
Missing == <<"Missing">>
NotYet  == <<"NotYet">>

(***************************************************************************)
(* Bounds of the model.                                                    *)
(***************************************************************************)
MaxLinks    == 3    \* longest list of link records handed to dedupe_links
MaxTitleLen == 2    \* longest enumerated page title (longer ones are samples)
MaxPathLen  == 3    \* longest enumerated URL path
MaxDepth    == 2    \* largest max_depth a run is configured with
MaxFaults   == 2    \* most errors the environment raises in one run

(***************************************************************************)
(* Strings.                                                                *)
(***************************************************************************)
LowerSeq == <<"a","b","c","d","e","f","g","h","i","j","k","l","m",
              "n","o","p","q","r","s","t","u","v","w","x","y","z">>
UpperSeq == <<"A","B","C","D","E","F","G","H","I","J","K","L","M",
              "N","O","P","Q","R","S","T","U","V","W","X","Y","Z">>
DigitSeq == <<"0","1","2","3","4","5","6","7","8","9">>

Range(s) == {s[i] : i \in 1..Len(s)}

\* [a-zA-Z0-9_-], the class the sanitizers keep
SafeChars == Range(LowerSeq) \cup Range(UpperSeq) \cup Range(DigitSeq) \cup {"_", "-"}
\* what str.split(), str.strip() and \s treat as white space
Whitespace == {" ", "\t"}
\* [\|\-\:]
Delimiters == {"|", "-", ":"}

upper(c) == IF c \in Range(LowerSeq)
            THEN UpperSeq[CHOOSE i \in 1..Len(LowerSeq) : LowerSeq[i] = c] ELSE c
lower(c) == IF c \in Range(UpperSeq)
            THEN LowerSeq[CHOOSE i \in 1..Len(UpperSeq) : UpperSeq[i] = c] ELSE c

\* str.capitalize()
capitalize(w) == [i \in 1..Len(w) |-> IF i = 1 THEN upper(w[i]) ELSE lower(w[i])]

\* str.replace(old, new) for one-character old and new
replace(s, old, new) == [i \in 1..Len(s) |-> IF s[i] = old THEN new ELSE s[i]]

\* re.sub(r'[^a-zA-Z0-9_-]', '_', s)
re_sub_unsafe(s) == [i \in 1..Len(s) |-> IF s[i] \in SafeChars THEN s[i] ELSE "_"]

\* str.strip()
strip(s) ==
    LET keep == {i \in 1..Len(s) : s[i] \notin Whitespace}
    IN  IF keep = {} THEN <<>>
        ELSE SubSeq(s, CHOOSE i \in keep : \A j \in keep : i <= j,
                       CHOOSE i \in keep : \A j \in keep : i >= j)

\* str.split(sep): the pieces between the occurrences of sep, empty ones kept
RECURSIVE split_on(_, _)
split_on(s, sep) ==
    LET hits == {i \in 1..Len(s) : s[i] = sep}
    IN  IF hits = {} THEN <<s>>
        ELSE LET k == CHOOSE i \in hits : \A j \in hits : i <= j
             IN  <<SubSeq(s, 1, k - 1)>> \o split_on(SubSeq(s, k + 1, Len(s)), sep)

\* str.split(): the maximal runs of non-white-space characters
RECURSIVE split_ws(_)
split_ws(s) ==
    LET t == strip(s)
        ws == {i \in 1..Len(t) : t[i] \in Whitespace}
    IN  IF t = <<>> THEN <<>>
        ELSE IF ws = {} THEN <<t>>
        ELSE LET k == CHOOSE i \in ws : \A j \in ws : i <= j
             IN  <<SubSeq(t, 1, k - 1)>> \o split_ws(SubSeq(t, k + 1, Len(t)))

\* ' '.join(words)
RECURSIVE join_sp(_)
join_sp(words) ==
    IF words = <<>> THEN <<>>
    ELSE IF Len(words) = 1 THEN words[1]
    ELSE words[1] \o <<" ">> \o join_sp(Tail(words))

\* str.replace(pat, '') for a longer pattern: left to right, not overlapping
RECURSIVE remove_sub(_, _)
remove_sub(s, pat) ==
    IF Len(s) < Len(pat) THEN s
    ELSE IF SubSeq(s, 1, Len(pat)) = pat THEN remove_sub(SubSeq(s, Len(pat) + 1, Len(s)), pat)
    ELSE <<s[1]>> \o remove_sub(Tail(s), pat)

\* n copies of the character c
rep(c, n) == [i \in 1..n |-> c]

\* a split that knows the pipe only
first_segment_pipe_only(title) ==
    LET ds == {i \in 1..Len(title) : title[i] = "|"}
    IN  IF ds = {} THEN title
        ELSE SubSeq(title, 1, (CHOOSE i \in ds : \A j \in ds : i <= j) - 1)

\* re.split(r'\s*[\|\-\:]\s*', title)[0]: the text before the leftmost match,
\* which starts at the white space run in front of the first delimiter
first_segment(title) ==
    LET ds == {i \in 1..Len(title) : title[i] \in Delimiters}
    IN  IF ds = {} THEN title
        ELSE LET d == CHOOSE i \in ds : \A j \in ds : i <= j
                 starts == {p \in 1..d : \A k \in p..(d - 1) : title[k] \in Whitespace}
                 p0 == CHOOSE p \in starts : \A q \in starts : p <= q
             IN  SubSeq(title, 1, p0 - 1)

(***************************************************************************)
(* combined_crawler.dedupe_links.  A link record is [url, text]; a field   *)
(* the dict does not hold is Missing, JSON null is None.                   *)
(***************************************************************************)
\* dict.get(key, default)
get(v, default) == IF v = Missing THEN default ELSE v

\* Python truth value of a str-or-None
truthy(v) == v # None /\ v # <<>>

index_of(seen, url) ==
    IF \E i \in 1..Len(seen) : seen[i].url = url
    THEN CHOOSE i \in 1..Len(seen) : seen[i].url = url
    ELSE 0

\* the loop body without the text test of line 271: the first record of a URL stays
dedupe_step_never_replaces(seen, link) ==
    LET url == get(link.url, None)
    IN  IF url = None THEN seen
        ELSE IF index_of(seen, url) = 0
             THEN Append(seen, [url |-> url, text |-> get(link.text, <<>>)])
             ELSE seen

\* the loop body on a dict whose reassigned key moves to the end
dedupe_step_moves_to_end(seen, link) ==
    LET url == get(link.url, None)
        i == index_of(seen, url)
        entry == [url |-> url, text |-> get(link.text, <<>>)]
    IN  IF url = None THEN seen
        ELSE IF i = 0 THEN Append(seen, entry)
        ELSE IF truthy(get(link.text, None)) /\ ~truthy(seen[i].text)
             THEN Append(SubSeq(seen, 1, i - 1) \o SubSeq(seen, i + 1, Len(seen)), entry)
             ELSE seen

\* One iteration of the loop of dedupe_links: `seen` is the OrderedDict as the
\* list of its values; assigning an existing key keeps the key's position.
dedupe_step(seen, link) ==
    LET url == get(link.url, None)
        i == index_of(seen, url)
        entry == [url |-> url, text |-> get(link.text, <<>>)]
    IN  IF url = None THEN seen
        ELSE IF i = 0 THEN Append(seen, entry)
        ELSE IF truthy(get(link.text, None)) /\ ~truthy(seen[i].text)
             THEN [seen EXCEPT ![i] = entry]
             ELSE seen

RECURSIVE dedupe_loop(_, _)
dedupe_loop(seen, links) ==
    IF links = <<>> THEN seen
    ELSE dedupe_loop(dedupe_step(seen, links[1]), Tail(links))

\* data.get("links", [])
get_links(data) == IF data.has_links THEN data.links ELSE <<>>

\* a loop that starts at the second link
dedupe_links_skips_first(data) ==
    [data EXCEPT !.has_links = TRUE,
                 !.links = dedupe_loop(<<>>, IF get_links(data) = <<>> THEN <<>>
                                             ELSE Tail(get_links(data)))]

\* dedupe_links(data): data itself after data["links"] was assigned
dedupe_links(data) ==
    [data EXCEPT !.has_links = TRUE, !.links = dedupe_loop(<<>>, get_links(data))]

(***************************************************************************)
(* The folder-name resolver of HtmlCrawler.                                *)
(***************************************************************************)
MaxSlugLen == 100
MaxWords   == 5

TitleNotFound == <<"T","i","t","l","e"," ","n","o","t"," ","f","o","u","n","d">>

truncate(slug) == IF Len(slug) > MaxSlugLen THEN SubSeq(slug, 1, MaxSlugLen) ELSE slug

sanitize_title_for_folder_name(title) ==
    IF title = <<>> \/ title = TitleNotFound THEN None
    ELSE LET seg   == strip(first_segment(title))
             words == split_ws(seg)
             cut   == IF Len(words) > MaxWords THEN join_sp(SubSeq(words, 1, MaxWords)) ELSE seg
             slug  == truncate(re_sub_unsafe(replace(cut, " ", "_")))
         IN  IF slug = <<>> THEN None ELSE slug

\* urllib.parse.urlparse, for URLs without query and fragment
SchemeTokens == {"http://", "https://"}
startswith_http(url) == url # <<>> /\ url[1] \in SchemeTokens

urlparse(url) ==
    IF startswith_http(url)
    THEN LET rest == Tail(url)
             sl == {i \in 1..Len(rest) : rest[i] = "/"}
             k == IF sl = {} THEN Len(rest) + 1 ELSE CHOOSE i \in sl : \A j \in sl : i <= j
         IN  [scheme |-> IF url[1] = "https://" THEN "https" ELSE "http", netloc |-> SubSeq(rest, 1, k - 1),
              path |-> SubSeq(rest, k, Len(rest))]
    ELSE [scheme |-> "", netloc |-> <<>>, path |-> url]

WWW == <<"w","w","w",".">>

\* the slug of the last path segment, NotYet when the path gives none
slug_from_path(path) ==
    IF path = <<>> THEN NotYet
    ELSE LET p1 == IF path[Len(path)] = "/" THEN SubSeq(path, 1, Len(path) - 1) ELSE path
             path_parts == split_on(p1, "/")
             n == Len(path_parts)
             last_part == IF path_parts[n] # <<>> THEN path_parts[n]
                          ELSE IF n > 1 THEN path_parts[n - 1] ELSE <<>>
             text_name == replace(replace(last_part, "-", " "), "_", " ")
             stem == IF "." \in Range(text_name) THEN split_on(text_name, ".")[1] ELSE text_name
             caps == split_ws(stem)
             titled == join_sp([i \in 1..Len(caps) |-> capitalize(caps[i])])
         IN  IF last_part = <<>> THEN NotYet
             ELSE truncate(re_sub_unsafe(replace(titled, " ", "_")))

slug_from_domain(netloc, timestamp) ==
    LET domain == remove_sub(netloc, WWW)
        domain_parts == split_on(domain, ".")
    IN  IF Len(domain_parts) > 0
        THEN truncate(re_sub_unsafe(capitalize(domain_parts[1])) \o <<"_">> \o timestamp)
        ELSE <<"W","e","b","_","P","a","g","e","_">> \o timestamp

\* timestamp: the digits of int(time.time())
sanitize_url_for_folder_name(url, timestamp) ==
    LET parsed_url == urlparse(url)
        s == slug_from_path(parsed_url.path)
    IN  IF s # NotYet THEN s ELSE slug_from_domain(parsed_url.netloc, timestamp)

\* crawl_url_recursive, lines 286-292: the title first, the URL when `not slug`
resolve_folder_name(title, url, timestamp) ==
    LET slug == sanitize_title_for_folder_name(title)
    IN  IF slug = None \/ slug = <<>> THEN sanitize_url_for_folder_name(url, timestamp) ELSE slug

(***************************************************************************)
(* The web a run meets: pages, their titles, their anchors, robots.txt.    *)
(***************************************************************************)
PageR == <<"https://", "a", "/", "r">>
PageP == <<"https://", "a", "/", "p">>
PageQ == <<"https://", "a", "/", "q">>
PageH == <<"https://", "a", "/", ".", "h">>
PageX == <<"https://", "b", "/", "x">>
BareR == <<"a", "/", "r">>          \* PageR typed without its scheme
BareQ == <<"a", "/", "q">>          \* PageQ typed without its scheme
MailTo == <<"m", "a", "i", "l">>    \* an href that is no http(s) URL

Sites     == {"cycle", "chain", "shortcut"}
StartUrls == {PageR, BareR, BareQ, PageX}
Timestamps == {<<"1", "7">>, <<"1", "8">>}

link(u, t) == [url |-> u, text |-> t]

\* WebsiteCrawler.get_links_from_grid on the page at url: the anchors in page
\* order, an anchor without href giving url None
site_links(s, url) ==
    CASE s = "cycle" /\ url = PageR ->
            <<link(PageP, <<"t">>), link(PageQ, <<>>), link(None, <<"t">>), link(PageP, <<>>),
              link(PageH, <<>>), link(PageR, <<"t">>), link(MailTo, <<"t">>), link(PageX, <<"t">>)>>
      [] s = "cycle" /\ url = PageP -> <<link(PageR, <<>>), link(PageQ, <<"t">>), link(PageH, <<"t">>)>>
      [] s = "cycle" /\ url = PageQ -> <<link(PageP, <<"t">>), link(PageR, <<"t">>)>>
      [] s = "cycle" /\ url = PageH -> <<link(PageX, <<"t">>)>>
      [] s = "cycle" /\ url = PageX -> <<link(PageX, <<"t">>), link(PageR, <<"t">>)>>
      [] s = "chain" /\ url = PageR -> <<link(PageP, <<"t">>)>>
      [] s = "chain" /\ url = PageP -> <<link(PageX, <<"t">>), link(PageX, <<>>)>>
      [] s = "chain" /\ url = PageX -> <<link(PageH, <<"t">>)>>
      [] s = "chain" /\ url = PageH -> <<link(PageQ, <<"t">>)>>
      [] s = "chain" /\ url = PageQ -> <<link(PageR, <<"t">>)>>
      [] s = "shortcut" /\ url = PageR -> <<link(PageP, <<"t">>), link(PageQ, <<"t">>)>>
      [] s = "shortcut" /\ url = PageP -> <<link(PageQ, <<"t">>)>>
      [] s = "shortcut" /\ url = PageQ -> <<link(PageH, <<"t">>)>>
      [] OTHER -> <<>>

\* WebsiteCrawler.get_page_title on the page at url
site_title(s, url) ==
    CASE url = PageR -> <<"R", "a", " ", "|", " ", "S">>
      [] url = PageP -> IF s = "chain" THEN <<"P", "a">> ELSE <<>>
      [] url = PageQ -> TitleNotFound
      [] url = PageX -> <<"-", " ", "x">>
      [] OTHER -> <<>>

\* a RobotFileParser: disallow_all, and the rule lines of the entry for "*"
PermissiveParser == [disallow_all |-> FALSE, rules |-> <<[path |-> <<"/">>, allowance |-> TRUE]>>]

\* the parser after rp.read() of base/robots.txt succeeded
robots_txt(base) ==
    IF base = <<"https://", "a">>
    THEN [disallow_all |-> FALSE, rules |-> <<[path |-> <<"/", "q">>, allowance |-> FALSE]>>]
    ELSE [disallow_all |-> FALSE, rules |-> <<>>]

starts_with(s, prefix) == Len(s) >= Len(prefix) /\ SubSeq(s, 1, Len(prefix)) = prefix

\* RobotFileParser.can_fetch("*", url): the first rule line the path starts with decides
rp_can_fetch(rp, url) ==
    LET path0 == urlparse(url).path
        path == IF path0 = <<>> THEN <<"/">> ELSE path0
        hits == {i \in 1..Len(rp.rules) : starts_with(path, rp.rules[i].path)}
    IN  IF rp.disallow_all THEN FALSE
        ELSE IF hits = {} THEN TRUE
        ELSE rp.rules[CHOOSE i \in hits : \A j \in hits : i <= j].allowance

(***************************************************************************)
(* HtmlCrawler.get_robots_parser and can_fetch.                            *)
(***************************************************************************)
\* f"{parsed_url.scheme}://{parsed_url.netloc}"
base_url(url) == <<urlparse(url).scheme \o "://">> \o urlparse(url).netloc

put(f, k, v) == [x \in DOMAIN f \cup {k} |-> IF x = k THEN v ELSE f[x]]

\* get_robots_parser without line 78: the permissive parser is returned and not cached
get_robots_parser_forgets_error(cache, url, read_raises) ==
    LET base == base_url(url)
    IN  IF base \in DOMAIN cache THEN [cache |-> cache, rp |-> cache[base]]
        ELSE IF read_raises THEN [cache |-> cache, rp |-> PermissiveParser]
        ELSE [cache |-> put(cache, base, robots_txt(base)), rp |-> robots_txt(base)]

\* get_robots_parser without line 71: a parser that was read is returned and not cached
get_robots_parser_forgets_success(cache, url, read_raises) ==
    LET base == base_url(url)
    IN  IF base \in DOMAIN cache THEN [cache |-> cache, rp |-> cache[base]]
        ELSE IF read_raises
             THEN [cache |-> put(cache, base, PermissiveParser), rp |-> PermissiveParser]
             ELSE [cache |-> cache, rp |-> robots_txt(base)]

\* get_robots_parser(url) on the cache: the cache afterwards and the parser returned
get_robots_parser(cache, url, read_raises) ==
    LET base == base_url(url)
    IN  IF base \in DOMAIN cache THEN [cache |-> cache, rp |-> cache[base]]
        ELSE IF read_raises
             THEN [cache |-> put(cache, base, PermissiveParser), rp |-> PermissiveParser]
             ELSE [cache |-> put(cache, base, robots_txt(base)), rp |-> robots_txt(base)]

\* can_fetch(url): the answer and the cache afterwards
can_fetch(cache, respect, url, read_raises) ==
    IF ~respect THEN [allowed |-> TRUE, cache |-> cache]
    ELSE LET g == get_robots_parser(cache, url, read_raises)
         IN  [allowed |-> rp_can_fetch(g.rp, url), cache |-> g.cache]

(***************************************************************************)
(* HtmlCrawler.crawl_url_recursive, one stack frame per active call.       *)
(***************************************************************************)
\* a recursive call that goes two levels down
child_depth_plus_two(current_depth) == current_depth + 2

\* a recursive call that hands its own depth on
child_depth_same(current_depth) == current_depth

\* the depth handed to the recursive call (line 377)
child_depth(current_depth) == current_depth + 1

\* os.path.join(parent_folder, slug) as the list of the folders on the way;
\* joining "" names the parent itself
path_join(parent_folder, slug) == IF slug = <<>> THEN parent_folder ELSE Append(parent_folder, slug)

\* os.makedirs(os.path.join(output_folder, "images"), exist_ok=True); a folder holds
\* its two JSON files, each <<>> (no such file) or <<data>>
makedirs(files, folder) ==
    IF folder = <<>> \/ folder \in DOMAIN files THEN files
    ELSE put(files, folder, [content |-> <<>>, links |-> <<>>])

\* WebsiteCrawler.save_to_json: os.makedirs(os.path.dirname(filename)) raises for a
\* file name without a directory, and every error is swallowed.  outcome: "ok",
\* "open_fails" (the file stays as it was) or "write_fails" (open() has truncated
\* the file and json.dump did not finish: no JSON can be read from it)
save_to_json(files, folder, name, data, outcome) ==
    IF folder = <<>> \/ outcome = "open_fails" THEN files
    ELSE LET old == makedirs(files, folder)[folder]
             new == IF outcome = "ok" THEN <<data>> ELSE <<>>
         IN  put(files, folder, IF name = "content" THEN [old EXCEPT !.content = new]
                                                    ELSE [old EXCEPT !.links = new])

\* a reader that returns the URLs of the file last to first
RECURSIVE valid_urls_reversed(_)
valid_urls_reversed(links) ==
    IF links = <<>> THEN <<>>
    ELSE LET url == get(links[1].url, None)
         IN  valid_urls_reversed(Tail(links)) \o (IF url # None /\ startswith_http(url) THEN <<url>> ELSE <<>>)

RECURSIVE valid_urls(_)
valid_urls(links) ==
    IF links = <<>> THEN <<>>
    ELSE LET url == get(links[1].url, None)
         IN  (IF url # None /\ startswith_http(url) THEN <<url>> ELSE <<>>) \o valid_urls(Tail(links))

\* parse_links_file(links_filename): [] when the file cannot be read
parse_links_file(files, folder) ==
    IF folder \in DOMAIN files /\ Len(files[folder].links) = 1
    THEN valid_urls(get_links(files[folder].links[1]))
    ELSE <<>>

\* what WebsiteCrawler.crawl returns when the page load raised (line 91):
\* {"error": ...} twice, no title and no links
crawl_error(s, url) ==
    [title |-> Missing, links_result |-> [url |-> Missing, has_links |-> FALSE, links |-> <<>>]]

\* WebsiteCrawler.crawl(url): the title of `result`, and `links_result`
crawl(s, url, loads) ==
    IF loads
    THEN [title |-> site_title(s, url),
          links_result |-> [url |-> url, has_links |-> TRUE, links |-> site_links(s, url)]]
    ELSE crawl_error(s, url)

NoData == [url |-> Missing, has_links |-> FALSE, links |-> <<>>]

SaveOutcomes == {"ok", "open_fails", "write_fails"}

Frame(id, url, depth, parent_folder) ==
    [id |-> id, url |-> url, current_depth |-> depth, parent_folder |-> parent_folder,
     pc |-> "enter", furl |-> url, fetch_ok |-> FALSE, links_data |-> NoData,
     output_folder |-> <<>>, urls_to_crawl |-> <<>>, i |-> 0]

Top == stack[Len(stack)]
Caller == stack[Len(stack) - 1]
returned(stk) == SubSeq(stk, 1, Len(stk) - 1)
run_after(stk) == IF stk = <<>> THEN "done" ELSE "running"
set_top(f) == [stack EXCEPT ![Len(stack)] = f]
error(task, kind, by, dropped) == [task |-> task, kind |-> kind, caught_by |-> by, dropped |-> dropped]
read_failed(errs, base) ==
    \E e \in errs : e.kind = "robots_txt" /\ base_url(tasks[e.task].url) = base

\* the ways rp.read() may end if can_fetch(url) is evaluated now (TRUE: it raises);
\* urlopen raises ValueError for the base "://" of a URL without scheme
read_outcomes(url) ==
    IF ~respect_robots_txt \/ base_url(url) \in DOMAIN robots_cache THEN {FALSE}
    ELSE IF base_url(url) = <<"://">> THEN {TRUE}
    ELSE IF faults < MaxFaults THEN {FALSE, TRUE} ELSE {FALSE}

reads(url) == respect_robots_txt /\ base_url(url) \notin DOMAIN robots_cache

\* the bookkeeping of one can_fetch(url) by the call on top
Checked(url, read_raises, verdict) ==
    /\ robots_cache' = verdict.cache
    /\ faults' = IF reads(url) /\ read_raises /\ base_url(url) # <<"://">> THEN faults + 1 ELSE faults
    /\ LET errs == IF reads(url) /\ read_raises
                   THEN errors \cup {error(Top.id, "robots_txt", Top.id, <<>>)} ELSE errors
       IN  /\ errors' = errs
           /\ checks' = IF respect_robots_txt
                        THEN checks \cup {[base |-> base_url(url), url |-> url,
                                           allowed |-> verdict.allowed,
                                           after_error |-> read_failed(errs, base_url(url))]}
                        ELSE checks

\* one entry of the run's trace: a call of crawl_url_recursive ("call"), rp.read()
\* ("robots_read", at = the base), the return of line 270 ("depth_exceeded"),
\* crawler.crawl ("fetch", ok = it loaded), the two save_to_json calls ("persist",
\* at = the output folder, ok / ok2 = content / links file written), and
\* time.sleep(self.delay) ("delay", task = the page being expanded)
event(kind, task, at, ok, ok2) == [kind |-> kind, task |-> task, at |-> at, ok |-> ok, ok2 |-> ok2]

\* the rp.read() made by can_fetch(url), if it makes one
read_events(url, read_raises) ==
    IF reads(url) THEN <<event("robots_read", Top.id, base_url(url), ~read_raises, FALSE)>> ELSE <<>>

\* a crawler that never marks a URL
mark_crawled_never(crawled, url) == crawled

\* a crawler whose visited set holds the latest URL only
mark_crawled_latest_only(crawled, url) == {url}

\* self.crawled_urls.add(url), line 265
mark_crawled(crawled, url) == crawled \cup {url}

\* a close that leaves the browser running
close_leaks(n) == n

\* WebsiteCrawler.close in the finally of lines 396-398: n drivers were open
close(n) == n - 1

\* a loop that sleeps before every link
sleeps_always(i) == i >= 0

\* `if i > 0:` of line 372, i counting the links of the page from 0
sleeps(i) == i > 0

StartCrawling ==
    /\ run = "init"
    /\ run' = "running"
    /\ stack' = <<Frame(1, start_url, 0, <<>>)>>
    /\ tasks' = <<[url |-> start_url, depth |-> 0, parent |-> 0]>>
    /\ events' = <<event("call", 1, <<>>, FALSE, FALSE)>>
    /\ UNCHANGED <<dedupeVars, nameVars, site, start_url, max_depth, respect_robots_txt, crawled_urls, robots_cache,
                   fs, open_drivers, faults, fetches, errors, checks, mediaVars, procVars, recVars>>

\* lines 255-257
AlreadyCrawled ==
    /\ run = "running" /\ Top.pc = "enter"
    /\ Top.url \in crawled_urls
    /\ stack' = returned(stack)
    /\ run' = run_after(stack')
    /\ UNCHANGED <<dedupeVars, nameVars, site, start_url, max_depth, respect_robots_txt, crawled_urls, robots_cache,
                   fs, open_drivers, faults, tasks, fetches, errors, checks, events, mediaVars, procVars, recVars>>

\* lines 260-262
Disallowed ==
    /\ run = "running" /\ Top.pc = "enter"
    /\ Top.url \notin crawled_urls
    /\ \E read_raises \in read_outcomes(Top.url) :
        LET verdict == can_fetch(robots_cache, respect_robots_txt, Top.url, read_raises)
        IN  /\ ~verdict.allowed
            /\ Checked(Top.url, read_raises, verdict)
            /\ events' = events \o read_events(Top.url, read_raises)
    /\ stack' = returned(stack)
    /\ run' = run_after(stack')
    /\ UNCHANGED <<dedupeVars, nameVars, site, start_url, max_depth, respect_robots_txt, crawled_urls,
                   fs, open_drivers, tasks, fetches, mediaVars, procVars, recVars>>

\* lines 265-270
DepthExceeded ==
    /\ run = "running" /\ Top.pc = "enter"
    /\ Top.url \notin crawled_urls
    /\ \E read_raises \in read_outcomes(Top.url) :
        LET verdict == can_fetch(robots_cache, respect_robots_txt, Top.url, read_raises)
        IN  /\ verdict.allowed
            /\ Checked(Top.url, read_raises, verdict)
            /\ events' = events \o read_events(Top.url, read_raises)
                                 \o <<event("depth_exceeded", Top.id, <<>>, FALSE, FALSE)>>
    /\ crawled_urls' = mark_crawled(crawled_urls, Top.url)
    /\ Top.current_depth > max_depth
    /\ stack' = returned(stack)
    /\ run' = run_after(stack')
    /\ UNCHANGED <<dedupeVars, nameVars, site, start_url, max_depth, respect_robots_txt,
                   fs, open_drivers, tasks, fetches, mediaVars, procVars, recVars>>

\* lines 265-275: the URL is admitted and WebsiteCrawler() starts its browser
Admitted ==
    /\ run = "running" /\ Top.pc = "enter"
    /\ Top.url \notin crawled_urls
    /\ \E read_raises \in read_outcomes(Top.url) :
        LET verdict == can_fetch(robots_cache, respect_robots_txt, Top.url, read_raises)
        IN  /\ verdict.allowed
            /\ Checked(Top.url, read_raises, verdict)
            /\ events' = events \o read_events(Top.url, read_raises)
    /\ crawled_urls' = mark_crawled(crawled_urls, Top.url)
    /\ Top.current_depth <= max_depth
    /\ open_drivers' = open_drivers + 1
    /\ stack' = set_top([Top EXCEPT !.pc = "fetch"])
    /\ UNCHANGED <<dedupeVars, nameVars, site, start_url, max_depth, respect_robots_txt, run, fs, tasks, fetches, mediaVars, procVars, recVars>>

\* line 275 raises: WebsiteCrawler() stands before the try, so the exception leaves
\* this call; the caller's loop (line 377) is inside the caller's try, whose handler
\* returns False after closing the caller's browser
BrowserStartFails ==
    /\ run = "running" /\ Top.pc = "enter"
    /\ Top.url \notin crawled_urls
    /\ \E read_raises \in read_outcomes(Top.url) :
        LET verdict == can_fetch(robots_cache, respect_robots_txt, Top.url, read_raises)
            charged == IF reads(Top.url) /\ read_raises /\ base_url(Top.url) # <<"://">>
                       THEN 1 ELSE 0
            by      == IF Len(stack) = 1 THEN 0 ELSE Caller.id
            dropped == IF Len(stack) = 1 THEN <<>>
                       ELSE SubSeq(Caller.urls_to_crawl, Caller.i, Len(Caller.urls_to_crawl))
        IN  /\ verdict.allowed
            /\ faults + charged < MaxFaults
            /\ robots_cache' = verdict.cache
            /\ events' = events \o read_events(Top.url, read_raises)
            /\ faults' = faults + charged + 1
            /\ LET errs == IF reads(Top.url) /\ read_raises
                           THEN errors \cup {error(Top.id, "robots_txt", Top.id, <<>>)} ELSE errors
               IN  /\ errors' = errs \cup {error(Top.id, "start_browser", by, dropped)}
                   /\ checks' = IF respect_robots_txt
                                THEN checks \cup {[base |-> base_url(Top.url), url |-> Top.url,
                                                   allowed |-> TRUE,
                                                   after_error |-> read_failed(errs, base_url(Top.url))]}
                                ELSE checks
    /\ crawled_urls' = mark_crawled(crawled_urls, Top.url)
    /\ Top.current_depth <= max_depth
    /\ IF Len(stack) = 1
       THEN /\ stack' = <<>>
            /\ run' = "crashed"
            /\ open_drivers' = open_drivers
       ELSE /\ stack' = returned(returned(stack))
            /\ run' = run_after(stack')
            /\ open_drivers' = close(open_drivers)
    /\ UNCHANGED <<dedupeVars, nameVars, site, start_url, max_depth, respect_robots_txt, fs, tasks, fetches, mediaVars, procVars, recVars>>

\* lines 279-315: the scheme is added, the page is fetched, the folder is named and
\* made, the content browser is started
FetchPage ==
    /\ run = "running" /\ Top.pc = "fetch"
    /\ \E loads \in BOOLEAN, io \in {"ok", "makedirs", "content_browser"}, now \in Timestamps :
        LET url  == IF ~startswith_http(Top.url) THEN <<"https://">> \o Top.url ELSE Top.url
            page == crawl(site, url, loads)
            n    == (IF loads THEN 0 ELSE 1) + (IF io = "ok" THEN 0 ELSE 1)
            slug == resolve_folder_name(get(page.title, <<>>), url, now)
            output_folder == IF Top.parent_folder # <<>>
                             THEN path_join(Top.parent_folder, slug)
                             ELSE path_join(<<>>, slug)
        IN  /\ faults + n <= MaxFaults
            /\ faults' = faults + n
            /\ fetches' = Append(fetches, [task |-> Top.id, url |-> url,
                                           depth |-> Top.current_depth, ok |-> loads])
            /\ events' = Append(events, event("fetch", Top.id, <<>>, loads, FALSE))
            /\ errors' = errors
                  \cup (IF loads THEN {} ELSE {error(Top.id, "fetch", Top.id, <<>>)})
                  \cup (IF io = "ok" THEN {} ELSE {error(Top.id, io, Top.id, <<>>)})
            /\ fs' = IF io = "makedirs" THEN fs ELSE makedirs(fs, output_folder)
            /\ IF io = "ok"
               THEN /\ stack' = set_top([Top EXCEPT !.pc = "extract", !.furl = url,
                                                    !.fetch_ok = loads, !.links_data = page.links_result,
                                                    !.output_folder = output_folder])
                    /\ open_drivers' = open_drivers + 1
                    /\ run' = run
               ELSE /\ stack' = returned(stack)
                    /\ open_drivers' = close(open_drivers)
                    /\ run' = run_after(stack')
    /\ UNCHANGED <<dedupeVars, nameVars, site, start_url, max_depth, respect_robots_txt, crawled_urls, robots_cache,
                   tasks, checks, mediaVars, procVars, recVars>>

\* lines 317-365: extraction, the content browser is quit, the links are deduplicated,
\* both files are saved, and the links file is read back when the page is expanded
ExtractAndSave ==
    /\ run = "running" /\ Top.pc = "extract"
    /\ \E extracts \in BOOLEAN, w1 \in SaveOutcomes, w2 \in SaveOutcomes :
        LET f  == Top
            n  == (IF extracts THEN 0 ELSE 1)
                  + (IF f.output_folder # <<>> /\ w1 # "ok" THEN 1 ELSE 0)
                  + (IF f.output_folder # <<>> /\ w2 # "ok" THEN 1 ELSE 0)
            links_data   == dedupe_links(f.links_data)
            content_data == [url |-> IF f.fetch_ok \/ extracts THEN f.furl ELSE Missing,
                             error |-> ~f.fetch_ok]
            fs1 == save_to_json(fs, f.output_folder, "content", content_data, w1)
            fs2 == save_to_json(fs1, f.output_folder, "links", links_data, w2)
        IN  /\ f.output_folder = <<>> => w1 = "open_fails" /\ w2 = "open_fails"
            /\ faults + n <= MaxFaults
            /\ faults' = faults + n
            /\ errors' = errors
                  \cup (IF extracts THEN {} ELSE {error(f.id, "extract", f.id, <<>>)})
                  \cup (IF w1 = "ok" /\ w2 = "ok" THEN {} ELSE {error(f.id, "save", f.id, <<>>)})
            /\ fs' = fs2
            /\ events' = Append(events, event("persist", f.id, f.output_folder,
                                               f.output_folder # <<>> /\ w1 = "ok",
                                               f.output_folder # <<>> /\ w2 = "ok"))
            /\ IF f.current_depth < max_depth
               THEN /\ stack' = set_top([f EXCEPT !.pc = "loop", !.links_data = links_data,
                                         !.urls_to_crawl = parse_links_file(fs2, f.output_folder),
                                         !.i = 1])
                    /\ open_drivers' = open_drivers - 1
                    /\ run' = run
               ELSE /\ stack' = returned(stack)
                    /\ open_drivers' = close(open_drivers - 1)
                    /\ run' = run_after(stack')
    /\ UNCHANGED <<dedupeVars, nameVars, site, start_url, max_depth, respect_robots_txt, crawled_urls, robots_cache,
                   tasks, fetches, checks, mediaVars, procVars, recVars>>

\* lines 368-377: the next link of the page is crawled
CrawlNextLink ==
    /\ run = "running" /\ Top.pc = "loop"
    /\ Top.i <= Len(Top.urls_to_crawl)
    /\ LET next_url == Top.urls_to_crawl[Top.i]
           depth    == child_depth(Top.current_depth)
       IN  /\ tasks' = Append(tasks, [url |-> next_url, depth |-> depth, parent |-> Top.id])
           /\ stack' = Append(set_top([Top EXCEPT !.i = @ + 1]),
                              Frame(Len(tasks) + 1, next_url, depth, Top.output_folder))
           /\ events' = events
                 \o (IF sleeps(Top.i - 1) THEN <<event("delay", Top.id, <<>>, FALSE, FALSE)>> ELSE <<>>)
                 \o <<event("call", Len(tasks) + 1, <<>>, FALSE, FALSE)>>
    /\ UNCHANGED <<dedupeVars, nameVars, site, start_url, max_depth, respect_robots_txt, crawled_urls, robots_cache,
                   run, fs, open_drivers, faults, fetches, errors, checks, mediaVars, procVars, recVars>>

\* lines 379 and 396-398: the loop is over, the browser is closed, True is returned
ReturnTrue ==
    /\ run = "running" /\ Top.pc = "loop"
    /\ Top.i > Len(Top.urls_to_crawl)
    /\ stack' = returned(stack)
    /\ run' = run_after(stack')
    /\ open_drivers' = close(open_drivers)
    /\ UNCHANGED <<dedupeVars, nameVars, site, start_url, max_depth, respect_robots_txt, crawled_urls, robots_cache,
                   fs, faults, tasks, fetches, errors, checks, events, mediaVars, procVars, recVars>>

EmptyMap == [x \in {} |-> 0]

IdleCrawl ==
    /\ site = "cycle" /\ start_url = PageR /\ max_depth = 0 /\ respect_robots_txt = TRUE
    /\ crawled_urls = {} /\ robots_cache = EmptyMap /\ run = "idle" /\ stack = <<>>
    /\ fs = EmptyMap /\ open_drivers = 0 /\ faults = 0
    /\ tasks = <<>> /\ fetches = <<>> /\ errors = {} /\ checks = {} /\ events = <<>>

IdleDedupe == d_in = NoData /\ d_data = NoData /\ d_ret = NoData /\ d_prev = NoData /\ d_calls = 0

IdleName == n_title = <<>> /\ n_url = <<>> /\ n_slug = NotYet /\ n_via = "idle"

IdleProc ==
    /\ TOTAL_PAGES = 0 /\ WORKERS = 1 /\ p_phase = "idle" /\ p_w = 0 /\ p_start = 0
    /\ procs = <<>> /\ p_crawled = {} /\ p_written = {}

IdleRec ==
    /\ r_fs = EmptyMap /\ r_made = <<>> /\ r_order = "oldest" /\ r_phase = "idle"
    /\ links_files = <<>> /\ r_pos = 0 /\ r_crawled_urls = {} /\ processed_files = {}
    /\ r_listed = {} /\ r_fetched = <<>> /\ r_log = <<>>

IdleMedia == m_images = <<>> /\ m_i = 0 /\ m_files = {} /\ m_log = <<>>

\* HtmlCrawler(max_depth, delay, headless, respect_robots_txt), lines 41-46
Init ==
    /\ site \in Sites
    /\ start_url \in StartUrls
    /\ max_depth \in -1..MaxDepth
    /\ respect_robots_txt \in BOOLEAN
    /\ crawled_urls = {}
    /\ robots_cache = EmptyMap
    /\ run = "init"
    /\ stack = <<>>
    /\ fs = EmptyMap
    /\ open_drivers = 0
    /\ faults = 0
    /\ tasks = <<>> /\ fetches = <<>> /\ errors = {} /\ checks = {} /\ events = <<>>
    /\ IdleDedupe /\ IdleName /\ IdleMedia /\ IdleProc /\ IdleRec

Next ==
    \/ StartCrawling
    \/ AlreadyCrawled
    \/ Disallowed
    \/ DepthExceeded
    \/ Admitted
    \/ BrowserStartFails
    \/ FetchPage
    \/ ExtractAndSave
    \/ CrawlNextLink
    \/ ReturnTrue

Spec == Init /\ [][Next]_vars

(***************************************************************************)
(* Properties of the crawl.                                                *)
(***************************************************************************)
FetchFailed(id) == \E k \in 1..Len(fetches) : fetches[k].task = id /\ ~fetches[k].ok

\* C1: within one run no URL is fetched more than once, whatever the link graph
C1_FetchedAtMostOnce ==
    \A j \in 1..Len(fetches), k \in 1..Len(fetches) :
        j # k => fetches[j].url # fetches[k].url

\* C2: the root is crawled at depth 0, a URL found on a page of depth d is crawled at
\* depth d + 1, and no page is fetched at a depth above max_depth
C2_DepthDiscipline ==
    /\ \A t \in 1..Len(tasks) :
          IF tasks[t].parent = 0 THEN tasks[t].depth = 0
          ELSE tasks[t].depth = tasks[tasks[t].parent].depth + 1
    /\ \A k \in 1..Len(fetches) :
          /\ fetches[k].depth = tasks[fetches[k].task].depth
          /\ fetches[k].depth <= max_depth

\* a finished crawl of the chain R -> P -> X -> H that fetched X at depth 2 = max_depth
\* and turned back there
C2_Witness ==
    /\ run = "done" /\ site = "chain" /\ start_url = PageR /\ max_depth = 2
    /\ \E k \in 1..Len(fetches) : fetches[k].url = PageX /\ fetches[k].depth = 2
    /\ \A k \in 1..Len(fetches) : fetches[k].url # PageH
    /\ \E t \in 1..Len(tasks) : tasks[t].parent # 0 /\ tasks[tasks[t].parent].parent # 0

C8_FailOpen == \A c \in checks : c.after_error => c.allowed

\* two URLs of https://a were checked after its robots.txt could not be read, one of
\* them /q, which that robots.txt disallows, and /q was fetched
C8_Witness ==
    /\ \E c1 \in checks, c2 \in checks :
          /\ c1.url # c2.url
          /\ c1.base = c2.base /\ c1.after_error /\ c2.after_error
          /\ c2.url = PageQ /\ ~rp_can_fetch(robots_txt(c2.base), PageQ)
    /\ \E k \in 1..Len(fetches) : fetches[k].url = PageQ

\* C9: an error raised while a non-root URL is processed is caught by that URL's own
\* call, and no link of its parent is dropped because of it
C9_ErrorsStayInTask ==
    \A e \in errors :
        tasks[e.task].parent # 0 => e.caught_by = e.task /\ e.dropped = <<>>

\* C10: a page whose fetch failed gets no child
C10_NoChildOfFailedFetch ==
    \A t \in 1..Len(tasks) : tasks[t].parent # 0 => ~FetchFailed(tasks[t].parent)

\* C11: the content file and the links file are written only for a page whose fetch
\* succeeded; a page whose fetch failed writes neither
C11_FailedFetchWritesNothing ==
    \A k \in 1..Len(events) :
        (events[k].kind = "persist" /\ FetchFailed(events[k].task))
            => ~events[k].ok /\ ~events[k].ok2

\* the persist steps of task t in the trace
PersistOf(t) == {k \in 1..Len(events) : events[k].kind = "persist" /\ events[k].task = t}

\* those of them that wrote both files
Persisted(t) == {k \in PersistOf(t) : events[k].ok /\ events[k].ok2}

\* C12: the output folder of a page persisted as a child of page P is a direct
\* subfolder of P's output folder, never P's folder itself
C12_ChildFolderNested ==
    \A t \in 1..Len(tasks) : \A k \in Persisted(t) : \A j \in Persisted(tasks[t].parent) :
        /\ Len(events[k].at) = Len(events[j].at) + 1
        /\ SubSeq(events[k].at, 1, Len(events[j].at)) = events[j].at

\* the calls made for the links of the page of task t
ChildrenOf(t) == {c \in 1..Len(tasks) : tasks[c].parent = t}

\* the links a page of the site offers for crawling, in the order of the page
Crawlable(rec) == startswith_http(rec.url)

LinksOf(url) ==
    LET kept == SelectSeq(dedupe_links([url |-> url, has_links |-> TRUE,
                                        links |-> site_links(site, url)]).links, Crawlable)
    IN  [i \in 1..Len(kept) |-> kept[i].url]

\* C13: with max_depth = 2 the links of the root are crawled at depth 1, the links of
\* depth-1 pages at depth 2, and the links of depth-2 pages are not fetched (stated of
\* a finished run in which nothing raised)
C13_DepthTwoScenario ==
    (max_depth = 2 /\ run = "done" /\ faults = 0) =>
        /\ tasks[1].depth = 0
        /\ \A k \in 1..Len(fetches) :
              /\ fetches[k].depth <= 2
              /\ fetches[k].depth < 2 =>
                    /\ {tasks[c].url : c \in ChildrenOf(fetches[k].task)} = Range(LinksOf(fetches[k].url))
                    /\ \A c \in ChildrenOf(fetches[k].task) : tasks[c].depth = fetches[k].depth + 1
              /\ fetches[k].depth = 2 =>
                    \A c \in ChildrenOf(fetches[k].task) :
                        \A j \in 1..Len(fetches) : fetches[j].task # c

\* the chain X -> H -> Q -> R crawled from X: X, H, Q are fetched at depths 0, 1, 2 and
\* R, the link of the depth-2 page Q, is not fetched
C13_Witness ==
    /\ max_depth = 2 /\ run = "done" /\ faults = 0
    /\ site = "chain" /\ start_url = PageX
    /\ Len(fetches) = 3
    /\ fetches[1].url = PageX /\ fetches[1].depth = 0
    /\ fetches[2].url = PageH /\ fetches[2].depth = 1
    /\ fetches[3].url = PageQ /\ fetches[3].depth = 2
    /\ PageR \in Range(LinksOf(PageQ))

\* C14 as stated: a URL turned away for its depth is in crawled_urls all the same; the
\* URLs turned away for their depth are the links of a page fetched at depth max_depth
C14_TooDeepLinkMarked ==
    \A k \in 1..Len(fetches) :
        (fetches[k].depth = max_depth /\ fetches[k].ok /\ Persisted(fetches[k].task) # {})
            => Range(LinksOf(fetches[k].url)) \subseteq crawled_urls

\* C14, amended: a call that returns because current_depth > max_depth has added its
\* URL to crawled_urls and fetches nothing, while the links of a page fetched at depth
\* max_depth get no call at all
C14_DepthRejectedCallMarked ==
    /\ \A k \in 1..Len(events) :
          events[k].kind = "depth_exceeded" =>
              /\ tasks[events[k].task].url \in crawled_urls
              /\ \A j \in 1..Len(fetches) : fetches[j].task # events[k].task
    /\ \A k \in 1..Len(fetches) :
          fetches[k].depth >= max_depth => ChildrenOf(fetches[k].task) = {}

\* a crawler with max_depth = -1 turned its start URL away for its depth and holds it
\* in crawled_urls
C14_Witness ==
    /\ run = "done" /\ max_depth = -1 /\ fetches = <<>>
    /\ \E k \in 1..Len(events) : events[k].kind = "depth_exceeded" /\ events[k].task = 1
    /\ crawled_urls = {start_url}

\* the rp.read() calls of the trace
RobotsReads == {k \in 1..Len(events) : events[k].kind = "robots_read"}

\* C18: within one run robots.txt is read at most once per origin; after the first
\* lookup, read or failed, the origin's policy is in the cache and is not read again
C18_RobotsReadOncePerOrigin ==
    /\ \A j \in RobotsReads, k \in RobotsReads : j # k => events[j].at # events[k].at
    /\ \A c \in checks : c.base \in DOMAIN robots_cache
    /\ \A k \in RobotsReads : events[k].at \in DOMAIN robots_cache

\* three URLs of https://a were checked, /q was refused by the policy that was read,
\* and robots.txt of https://a was read once
C18_Witness ==
    /\ \E c1 \in checks, c2 \in checks :
          /\ c1.base = <<"https://", "a">> /\ c2.base = c1.base
          /\ c1.url = PageP /\ c1.allowed
          /\ c2.url = PageQ /\ ~c2.allowed
    /\ Cardinality({k \in RobotsReads : events[k].at = <<"https://", "a">> /\ events[k].ok}) = 1
    /\ Cardinality({c \in checks : c.base = <<"https://", "a">>}) >= 3

\* the task on the path from the root to task u that was called for a link of the
\* page of task p (0 when u is not below p)
RECURSIVE BranchUnder(_, _)
BranchUnder(p, u) ==
    IF tasks[u].parent = 0 THEN 0
    ELSE IF tasks[u].parent = p THEN u
    ELSE BranchUnder(p, tasks[u].parent)

\* tasks u and v lie under two different links of one page, and the link above u was
\* called after the link above v
RECURSIVE UnderLaterLink(_, _)
UnderLaterLink(u, v) ==
    /\ tasks[u].parent # 0
    /\ \/ LET d == BranchUnder(tasks[u].parent, v) IN d # 0 /\ d < u
       \/ UnderLaterLink(tasks[u].parent, v)

\* the i-th call made for a link of the page of task t
KidAt(t, i) == CHOOSE c \in ChildrenOf(t) : Cardinality({d \in ChildrenOf(t) : d < c}) = i - 1

\* the links the page of task t gave to its expansion, when its links file was written
\* by its own save (an empty list for a page whose fetch failed)
ListedBy(t) ==
    LET f == CHOOSE k \in 1..Len(fetches) : fetches[k].task = t
    IN  IF fetches[f].ok THEN LinksOf(fetches[f].url) ELSE <<>>

\* C19: the traversal is depth-first in the order of the links. The trace only grows at
\* its end, so the order is stated of its latest entry: a page is fetched or saved only
\* after the files of its parent page were saved, and never after a fetch or a save in
\* the subtree of a later link of its page or of a page above it; and the n-th call made
\* for a page (whose links file was written) is for the n-th link of its deduplicated list
C19_DepthFirstInLinkOrder ==
    LET k == Len(events)
        v == events[k].task
        p == tasks[v].parent
    IN  /\ (events # <<>> /\ events[k].kind \in {"fetch", "persist"}) =>
              /\ p # 0 => \E j \in PersistOf(p) : j < k
              /\ \A j \in 1..(k - 1) :
                    events[j].kind \in {"fetch", "persist"} =>
                        ~UnderLaterLink(events[j].task, v)
        /\ (events # <<>> /\ events[k].kind = "call" /\ p # 0) =>
              LET n == Cardinality(ChildrenOf(p))
              IN  (\E j \in PersistOf(p) : events[j].ok2) =>
                      /\ n <= Len(ListedBy(p))
                      /\ tasks[v].url = ListedBy(p)[n]

\* the site "cycle" crawled from R to depth 2 with nothing raised: R, then its first
\* link P with P's links Q and H, and only then the root's last link X
C19_Witness ==
    /\ run = "done" /\ site = "cycle" /\ start_url = PageR /\ max_depth = 2
    /\ faults = 0 /\ ~respect_robots_txt
    /\ [k \in 1..Len(fetches) |-> fetches[k].url] = <<PageR, PageP, PageQ, PageH, PageX>>
    /\ [k \in 1..Len(fetches) |-> fetches[k].depth] = <<0, 1, 2, 2, 1>>
    /\ Cardinality(ChildrenOf(1)) = 5

\* C20: in the expansion of a page the delay is applied before the call for every link
\* but the first, and never before the call for the first link
C20_DelayBeforeLaterSiblings ==
    /\ \A k \in 1..Len(events) :
          (events[k].kind = "call" /\ tasks[events[k].task].parent # 0) =>
              LET c     == events[k].task
                  first == \A d \in ChildrenOf(tasks[c].parent) : c <= d
              IN  /\ first => events[k - 1].kind # "delay"
                  /\ ~first => events[k - 1].kind = "delay" /\ events[k - 1].task = tasks[c].parent
    /\ \A j \in 1..Len(events) :
          (events[j].kind = "delay" /\ j < Len(events)) =>
              events[j + 1].kind = "call" /\ tasks[events[j + 1].task].parent = events[j].task

\* a page with three links was expanded: two delays, none before its first link
C20_Witness ==
    \E t \in 1..Len(tasks) :
        /\ Cardinality(ChildrenOf(t)) = 3
        /\ Cardinality({k \in 1..Len(events) : events[k].kind = "delay" /\ events[k].task = t}) = 2
        /\ \E k \in 1..Len(events) :
              /\ events[k].kind = "call" /\ events[k].task = KidAt(t, 1)
              /\ events[k - 1].kind = "persist" /\ events[k - 1].task = t

\* every URL a run can meet: the start URLs and the pages of the sites
KnownUrls == StartUrls \cup {PageR, PageP, PageQ, PageH, PageX}

\* the longest list of links a page of the sites shows
Widest ==
    LET lens == {Len(site_links(s, u)) : s \in Sites, u \in KnownUrls}
    IN  CHOOSE n \in lens : \A m \in lens : m <= n

\* the steps a call may still take by itself: a call that was admitted may still fetch,
\* save and open its loop; a loop may still make one call for each link left
CallRank(f) ==
    CASE f.pc = "enter"   -> 3
      [] f.pc = "fetch"   -> 4 * Widest + 3
      [] f.pc = "extract" -> 4 * Widest + 2
      [] f.pc = "loop"    -> 1 + 4 * (Len(f.urls_to_crawl) + 1 - f.i)

RECURSIVE StackRank(_)
StackRank(stk) == IF stk = <<>> THEN 0 ELSE CallRank(stk[1]) + StackRank(Tail(stk))

\* what is left of the run: the calls on the stack, and one full call for every URL the
\* visited set does not hold yet
Rank == (4 * Widest + 1) * Cardinality(KnownUrls \ crawled_urls) + StackRank(stack)

\* C24: on the finite sites of the model, cyclic and self-linking ones included,
\* start_crawling terminates: every step of a running crawl lowers a natural number,
\* the work left to the calls on the stack and to the URLs not yet in the visited set
C24_StartCrawlingTerminates ==
    [][run = "running" => (Rank' < Rank /\ Rank' >= 0)]_vars

\* a run to depth 2 over the site "cycle" has returned after it met the root again
\* among the links of the root and among those of a page below it
C24_Witness ==
    /\ run = "done" /\ site = "cycle" /\ start_url = PageR /\ max_depth = 2
    /\ \E c \in ChildrenOf(1) : tasks[c].url = PageR
    /\ \E c \in 1..Len(tasks) : tasks[c].url = PageR /\ tasks[c].depth = 2

\* the URLs within d links of url on the site, url included
RECURSIVE ReachWithin(_, _)
ReachWithin(url, d) ==
    IF d = 0 THEN {url}
    ELSE {url} \cup UNION {ReachWithin(v, d - 1) : v \in Range(LinksOf(url))}

\* C25: when a run from an http(s) root has returned, no error was raised and robots.txt
\* kept no URL out, every URL within max_depth links of the root has been fetched
C25_ReachableIsFetched ==
    (/\ run = "done" /\ faults = 0 /\ errors = {} /\ max_depth >= 0
     /\ startswith_http(start_url)
     /\ \A c \in checks : c.allowed) =>
        \A u \in ReachWithin(start_url, max_depth) :
            \E k \in 1..Len(fetches) : fetches[k].url = u /\ fetches[k].ok

\* C26: the URL handed to WebsiteCrawler.crawl is in crawled_urls when it is handed over
\* (stated of the state right after each fetch; crawled_urls changes in no fetch step)
C26_DispatchedUrlIsVisited ==
    (events # <<>> /\ events[Len(events)].kind = "fetch") =>
        fetches[Len(fetches)].url \in crawled_urls

\* the calls on the stack that hold their WebsiteCrawler driver
HoldingCrawler == {k \in 1..Len(stack) : stack[k].pc # "enter"}

\* C30: the only drivers open are the WebsiteCrawler driver of each call that has not
\* returned yet and the content driver of the call that is extracting; there are never
\* more than max_depth + 2 of them, and none once start_crawling has returned or raised
C30_DriversAreQuit ==
    /\ open_drivers = Cardinality(HoldingCrawler)
                        + (IF stack # <<>> /\ Top.pc = "extract" THEN 1 ELSE 0)
    /\ open_drivers >= 0
    /\ max_depth >= 0 => open_drivers <= max_depth + 2
    /\ run \in {"done", "crashed"} => open_drivers = 0

\* a page at depth max_depth = 2 is being extracted: its content driver and the three
\* WebsiteCrawler drivers of the calls on the stack are open
C30_Witness ==
    /\ max_depth = 2 /\ open_drivers = 4
    /\ Len(stack) = 3 /\ Top.pc = "extract" /\ Top.current_depth = 2

(***************************************************************************)
(* dedupe_links on every short list of link records.                       *)
(***************************************************************************)
MaxCalls == 2    \* dedupe_links calls made on one dict

LinkUrls    == {Missing, None, <<"a">>, <<"b">>}
LinkTexts   == {Missing, None, <<>>, <<"A">>, <<"B">>}
LinkRecords == [url : LinkUrls, text : LinkTexts]
LinkLists   == UNION {[1..k -> LinkRecords] : k \in 0..MaxLinks}

InitDedupe ==
    /\ d_in \in {[url |-> <<"p">>, has_links |-> TRUE, links |-> L] : L \in LinkLists}
                \cup {[url |-> Missing, has_links |-> FALSE, links |-> <<>>]}
    /\ d_data = d_in
    /\ d_ret = NoData /\ d_prev = NoData
    /\ d_calls = 0
    /\ IdleName /\ IdleCrawl /\ IdleMedia /\ IdleProc /\ IdleRec

\* cleaned = dedupe_links(data): data is changed in place and returned
DedupeCall ==
    /\ d_calls < MaxCalls
    /\ d_data' = dedupe_links(d_data)
    /\ d_ret' = dedupe_links(d_data)
    /\ d_prev' = d_ret
    /\ d_calls' = d_calls + 1
    /\ UNCHANGED <<d_in, nameVars, crawlVars, mediaVars, procVars, recVars>>

NextDedupe == DedupeCall

SpecDedupe == InitDedupe /\ [][NextDedupe]_vars

(***************************************************************************)
(* Properties of dedupe_links.                                             *)
(***************************************************************************)
\* the dict the latest call was given
LastArg == IF d_calls = 1 THEN d_in ELSE d_prev

url_of(rec) == get(rec.url, None)

\* the positions of L at which a URL occurs for the first time
FirstAt(L) ==
    {i \in 1..Len(L) : url_of(L[i]) # None /\ \A j \in 1..(i - 1) : url_of(L[j]) # url_of(L[i])}

\* the k-th smallest member of a set of positions
Nth(S, k) == CHOOSE i \in S : Cardinality({j \in S : j < i}) = k - 1

\* C4: the URLs of the output of dedupe_links are the distinct URLs of the input
\* records that carry a url, each once, in the order of their first occurrence
C4_FirstOccurrenceOrder ==
    d_calls >= 1 =>
        LET L   == get_links(LastArg)
            out == d_ret.links
        IN  /\ Len(out) = Cardinality(FirstAt(L))
            /\ \A k \in 1..Len(out) : out[k].url = L[Nth(FirstAt(L), k)].url
            /\ \A j \in 1..Len(out), k \in 1..Len(out) : j # k => out[j].url # out[k].url

\* a list in which a, b, a occur in this order comes out as [a, b]
C4_Witness ==
    /\ d_calls = 1
    /\ \E i \in 1..Len(d_in.links), j \in 1..Len(d_in.links), k \in 1..Len(d_in.links) :
          /\ i < j /\ j < k
          /\ url_of(d_in.links[i]) = <<"a">> /\ url_of(d_in.links[j]) = <<"b">>
          /\ url_of(d_in.links[k]) = <<"a">>
    /\ Len(d_ret.links) = 2 /\ d_ret.links[1].url = <<"a">> /\ d_ret.links[2].url = <<"b">>

\* C5: when several records share a URL and exactly one of them has a non-empty text,
\* the output record of that URL has that text and stands where the URL was first seen
C5_KeepsNonEmptyText ==
    d_calls >= 1 =>
        LET L   == get_links(LastArg)
            out == d_ret.links
        IN  \A f \in FirstAt(L) :
                LET shared == {i \in 1..Len(L) : url_of(L[i]) = url_of(L[f])}
                    worded == {i \in shared : truthy(get(L[i].text, None))}
                    at     == Cardinality({g \in FirstAt(L) : g <= f})
                IN  (Cardinality(shared) >= 2 /\ Cardinality(worded) = 1) =>
                        /\ out[at].url = L[f].url
                        /\ \A i \in worded : out[at].text = L[i].text

\* [{a, ''}, {b, 'B'}, {a, 'A'}] comes out as [{a, 'A'}, {b, 'B'}]
C5_Witness ==
    /\ d_calls = 1
    /\ d_in.links = <<[url |-> <<"a">>, text |-> <<>>], [url |-> <<"b">>, text |-> <<"B">>],
                      [url |-> <<"a">>, text |-> <<"A">>]>>
    /\ d_ret.links = <<[url |-> <<"a">>, text |-> <<"A">>], [url |-> <<"b">>, text |-> <<"B">>]>>

\* C6: dedupe_links applied to its own output returns that output unchanged
C6_Idempotent == d_calls >= 2 => d_ret = d_prev

\* the second call on a list that the first call shortened, and that held a record
\* without url and a record without text
C6_Witness ==
    /\ d_calls = 2
    /\ Len(d_ret.links) < Len(d_in.links) /\ Len(d_ret.links) >= 1
    /\ \E i \in 1..Len(d_in.links) : d_in.links[i].url = Missing
    /\ \E i \in 1..Len(d_in.links) : d_in.links[i].text = Missing /\ d_in.links[i].url # Missing

\* C15: dedupe_links leaves its argument unchanged: after the call the caller's dict
\* holds the link list it held before
C15_ArgumentUnchanged == d_calls >= 1 => get_links(d_data) = get_links(d_in)

(***************************************************************************)
(* The folder-name resolver on every short title and URL.                  *)
(***************************************************************************)
TitleChars == {"a", "B", " ", "|", "-", "!"}
PathChars  == {"/", "a", ".", "-"}
Netlocs    == {<<>>, <<"a", ".", "o">>, WWW \o <<"b", "c">>}

SeqsUpTo(S, n) == UNION {[1..k -> S] : k \in 0..n}

\* 'Cuisines of India | Ministry of Culture'
CuisinesTitle ==
    <<"C","u","i","s","i","n","e","s"," ","o","f"," ","I","n","d","i","a"," ","|"," ",
      "M","i","n","i","s","t","r","y"," ","o","f"," ","C","u","l","t","u","r","e">>

SampleTitles ==
    {TitleNotFound, CuisinesTitle,
     <<"a"," "," ","B">>,
     <<"a"," ","b"," ","c"," "," ","d"," ","e"," ","f"," ","g">>,
     rep("a", MaxSlugLen + 1),
     <<"x", " ">> \o rep("!", MaxSlugLen + 1)}

Titles == SeqsUpTo(TitleChars, MaxTitleLen) \cup SampleTitles

Paths == {<<>>} \cup {<<"/">> \o p : p \in SeqsUpTo(PathChars, MaxPathLen - 1)}
                \cup {<<"/">> \o rep("a", MaxSlugLen + 1)}

Urls == {<<"https://">> \o n \o p : n \in Netlocs, p \in Paths}
            \cup {n \o p : n \in Netlocs \ {<<>>}, p \in Paths}

InitName ==
    /\ n_title \in Titles
    /\ n_url \in Urls
    /\ n_slug = NotYet
    /\ n_via = "idle"
    /\ IdleDedupe /\ IdleCrawl /\ IdleMedia /\ IdleProc /\ IdleRec

\* crawl_url_recursive lines 286-292 on the title and the URL of a page
ResolveFolderName ==
    /\ n_slug = NotYet
    /\ \E now \in Timestamps :
        /\ n_slug' = resolve_folder_name(n_title, n_url, now)
        /\ n_via' = IF sanitize_title_for_folder_name(n_title) \notin {None, <<>>} THEN "title"
                    ELSE IF slug_from_path(urlparse(n_url).path) # NotYet THEN "path"
                    ELSE "domain"
    /\ UNCHANGED <<n_title, n_url, dedupeVars, crawlVars, mediaVars, procVars, recVars>>

NextName == ResolveFolderName

SpecName == InitName /\ [][NextName]_vars

(***************************************************************************)
(* Properties of the folder name.                                          *)
(***************************************************************************)
\* C7: the folder name resolved for a page is non-empty, at most 100 characters long,
\* and made of letters, digits, "_" and "-" only
C7_SlugWellFormed ==
    n_slug # NotYet =>
        /\ Len(n_slug) >= 1
        /\ Len(n_slug) <= MaxSlugLen
        /\ \A i \in 1..Len(n_slug) : n_slug[i] \in SafeChars

\* the title up to its first pipe, dash or colon, without the blanks around it
BeforeDelimiter(title) ==
    LET ds == {i \in 1..Len(title) : title[i] \in Delimiters}
    IN  strip(IF ds = {} THEN title
              ELSE SubSeq(title, 1, (CHOOSE i \in ds : \A j \in ds : i <= j) - 1))

RECURSIVE JoinUnderscore(_)
JoinUnderscore(words) ==
    IF words = <<>> THEN <<>>
    ELSE IF Len(words) = 1 THEN words[1]
    ELSE words[1] \o <<"_">> \o JoinUnderscore(Tail(words))

FirstWords(words) == IF Len(words) > MaxWords THEN SubSeq(words, 1, MaxWords) ELSE words

BlanksToUnderscores(s) == [i \in 1..Len(s) |-> IF s[i] \in Whitespace THEN "_" ELSE s[i]]

\* the title is made of words over [A-Za-z0-9_-], blanks and delimiters
PlainTitle(title) ==
    \A i \in 1..Len(title) : title[i] \in SafeChars \cup Whitespace \cup Delimiters

\* C16 as stated: the title-derived folder name of a plain title is its segment before
\* the first delimiter, cut to its first 5 words, the words joined by underscores
C16_TitleSlug ==
    (n_via = "title" /\ PlainTitle(n_title))
        => n_slug = JoinUnderscore(FirstWords(split_ws(BeforeDelimiter(n_title))))

\* C16, amended: the name is that segment with its first 5 words joined by single
\* underscores when it has more than 5 words, and with every blank turned into an
\* underscore otherwise, in both cases cut to 100 characters
C16_TitleSlugTruncated ==
    (n_via = "title" /\ PlainTitle(n_title)) =>
        LET seg   == BeforeDelimiter(n_title)
            words == split_ws(seg)
        IN  n_slug = truncate(IF Len(words) > MaxWords
                              THEN JoinUnderscore(FirstWords(words))
                              ELSE BlanksToUnderscores(seg))

\* 'Cuisines of India | Ministry of Culture' was named 'Cuisines_of_India'
C16_Witness ==
    /\ n_via = "title" /\ n_title = CuisinesTitle
    /\ n_slug = <<"C","u","i","s","i","n","e","s","_","o","f","_","I","n","d","i","a">>

\* C17: when the title gives no name and the URL has no usable path segment, the name is
\* 'Web_Page_<timestamp>' for a URL without host, and the capitalized first label of
\* the host (a leading 'www.' apart) followed by '_<timestamp>' otherwise
C17_UrlFallback ==
    n_via = "domain" =>
        LET netloc == urlparse(n_url).netloc
            label  == split_on(remove_sub(netloc, WWW), ".")[1]
        IN  \E now \in Timestamps :
                n_slug = IF netloc = <<>>
                         THEN <<"W","e","b","_","P","a","g","e","_">> \o now
                         ELSE capitalize(label) \o <<"_">> \o now

(***************************************************************************)
(* The image download loop on every short list of image URLs.              *)
(***************************************************************************)
MaxImages == 3    \* longest list of image URLs handed to one call

\* https://h/a.j, https://g/a.j, https://h/a_1.j, https://h/a_2.j, and https://h,
\* whose path names no file
ImageUrls ==
    {<<"https://", "h", "/", "a", ".", "j">>,
     <<"https://", "g", "/", "a", ".", "j">>,
     <<"https://", "h", "/", "a", "_", "1", ".", "j">>,
     <<"https://", "h", "/", "a", "_", "2", ".", "j">>,
     <<"https://", "h">>}

\* os.path.basename: what follows the last slash
basename(path) ==
    LET sl == {i \in 1..Len(path) : path[i] = "/"}
    IN  IF sl = {} THEN path
        ELSE SubSeq(path, (CHOOSE i \in sl : \A j \in sl : j <= i) + 1, Len(path))

\* os.path.splitext: the extension starts at the last dot, unless the name has none
\* or only leading ones
splitext(filename) ==
    LET dots == {i \in 1..Len(filename) : filename[i] = "." /\ \E j \in 1..(i - 1) : filename[j] # "."}
    IN  IF dots = {} THEN [name |-> filename, ext |-> <<>>]
        ELSE LET k == CHOOSE i \in dots : \A j \in dots : j <= i
             IN  [name |-> SubSeq(filename, 1, k - 1), ext |-> SubSeq(filename, k, Len(filename))]

\* str(i) of a loop index below ten
str_index(i) == <<DigitSeq[i + 1]>>

\* f"image_{i}.jpg"
default_image_name(i) == <<"i", "m", "a", "g", "e", "_">> \o str_index(i) \o <<".", "j", "p", "g">>

\* the file the i-th image is written to: the last path segment of its URL, or
\* image_<i>.jpg when there is none, and <name>_<i><ext> when that file exists
image_file_path(files, url, i) ==
    LET seg      == basename(urlparse(url).path)
        filename == IF seg = <<>> \/ "." \notin Range(seg) THEN default_image_name(i) ELSE seg
        parts    == splitext(filename)
    IN  IF filename \in files THEN parts.name \o <<"_">> \o str_index(i) \o parts.ext
        ELSE filename

\* the lists name each URL once (download_media is handed a set)
InitMedia ==
    /\ m_images \in {q \in SeqsUpTo(ImageUrls, MaxImages) :
                        \A i \in 1..Len(q), j \in 1..Len(q) : i # j => q[i] # q[j]}
    /\ m_i = 0 /\ m_files = {} /\ m_log = <<>>
    /\ IdleDedupe /\ IdleName /\ IdleCrawl /\ IdleProc /\ IdleRec

\* one round of the loop of _download_images: the image is requested and, on status
\* 200, written to its file path
DownloadImage ==
    /\ m_i < Len(m_images)
    /\ \E status \in {200, 404} :
          LET url       == m_images[m_i + 1]
              file_path == image_file_path(m_files, url, m_i)
          IN  IF status = 200
              THEN /\ m_files' = m_files \cup {file_path}
                   /\ m_log' = Append(m_log, [i |-> m_i, url |-> url, file_path |-> file_path,
                                              existed |-> file_path \in m_files])
              ELSE UNCHANGED <<m_files, m_log>>
    /\ m_i' = m_i + 1
    /\ UNCHANGED <<m_images, dedupeVars, nameVars, crawlVars, procVars, recVars>>

NextMedia == DownloadImage

SpecMedia == InitMedia /\ [][NextMedia]_vars

(***************************************************************************)
(* Properties of the image download.                                       *)
(***************************************************************************)
\* C21: no image is written onto a file that exists already, so no two images of one
\* call share a local file
C21_NoOverwrite ==
    /\ \A k \in 1..Len(m_log) : ~m_log[k].existed
    /\ \A j \in 1..Len(m_log), k \in 1..Len(m_log) :
          j # k => m_log[j].file_path # m_log[k].file_path

(***************************************************************************)
(* multi_process.py: main hands page ranges to worker processes, and each  *)
(* worker runs the crawler script once per page of its range.              *)
(***************************************************************************)
MaxPages   == 4    \* largest TOTAL_PAGES
MaxWorkers == 3    \* largest WORKERS

ROOT_URL ==
    <<"https://", "i","n","d","i","a","n","c","u","l","t","u","r","e",".","g","o","v",".","i","n",
      "/", "a","r","t","e","f","a","c","t","s","-","m","u","s","e","u","m","s">>

\* f"{ROOT_URL}?search_api_fulltext=&page={page}"
page_url(page) ==
    ROOT_URL \o <<"?", "s","e","a","r","c","h","_","a","p","i","_","f","u","l","l","t","e","x","t",
                  "=", "&", "p","a","g","e","=">> \o str_index(page)

\* urlparse keeps the query apart from the path: the URL up to its question mark
url_without_query(url) ==
    LET qs == {i \in 1..Len(url) : url[i] = "?"}
    IN  IF qs = {} THEN url ELSE SubSeq(url, 1, (CHOOSE i \in qs : \A j \in qs : i <= j) - 1)

\* the titles the listing may show for a page: none that can be read, the title of
\* the collection, or one that names the page
ListingTitle == <<"A","r","t","e","f","a","c","t","s"," ","|"," ","I","C">>
page_titles(page) == {TitleNotFound, ListingTitle, <<"P", " ">> \o str_index(page)}

\* a slice without the extra page of the remainder
slice_end_without_extra(start, base, w, extra) == start + base - 1

\* main, lines 59-61: the last page of the slice of worker w
slice_end(start, base, w, extra) == IF w < extra THEN start + base - 1 + 1 ELSE start + base - 1

\* the folder the crawler script, started in the shared working directory with the URL
\* of a page, saves the two JSON files of that page in
script_output_folder(title, url, timestamp) ==
    resolve_folder_name(title, url_without_query(url), timestamp)

InitProc ==
    /\ TOTAL_PAGES \in 0..MaxPages
    /\ WORKERS \in 1..MaxWorkers
    /\ p_phase = "overview" /\ p_w = 0 /\ p_start = 0
    /\ procs = <<>> /\ p_crawled = {} /\ p_written = {}
    /\ IdleDedupe /\ IdleName /\ IdleCrawl /\ IdleMedia /\ IdleRec

\* main, lines 46-48: crawl_page(ROOT_URL) in the target directory, by main itself
\* (worker 0 below); check=True lets a failing script end main
CrawlOverview ==
    /\ p_phase = "overview"
    /\ \E ok \in BOOLEAN, title \in {TitleNotFound, ListingTitle}, now \in Timestamps :
          IF ok
          THEN /\ p_written' = p_written \cup {[worker |-> 0, folder |-> script_output_folder(title, ROOT_URL, now)]}
               /\ p_phase' = "spawn"
          ELSE /\ p_phase' = "done"
               /\ UNCHANGED p_written
    /\ UNCHANGED <<TOTAL_PAGES, WORKERS, p_w, p_start, procs, p_crawled,
                   dedupeVars, nameVars, crawlVars, mediaVars, recVars>>

\* main, lines 52-65: one round of the loop that computes a slice and starts its process
StartWorker ==
    /\ p_phase = "spawn" /\ p_w < WORKERS
    /\ LET pages == TOTAL_PAGES + 1
           base  == pages \div WORKERS
           extra == pages % WORKERS
           end   == slice_end(p_start, base, p_w, extra)
       IN  /\ procs' = Append(procs, [first |-> p_start, last |-> end, page |-> p_start, alive |-> TRUE])
           /\ p_start' = end + 1
    /\ p_w' = p_w + 1
    /\ UNCHANGED <<TOTAL_PAGES, WORKERS, p_phase, p_crawled, p_written,
                   dedupeVars, nameVars, crawlVars, mediaVars, recVars>>

\* main, line 58 exhausted: the loop over range(WORKERS) is over
AllStarted ==
    /\ p_phase = "spawn" /\ p_w = WORKERS
    /\ p_phase' = "join"
    /\ UNCHANGED <<TOTAL_PAGES, WORKERS, p_w, p_start, procs, p_crawled, p_written,
                   dedupeVars, nameVars, crawlVars, mediaVars, recVars>>

\* crawl_range, lines 35-38, one round in worker k: the script is run for the next page
\* of range(start, end + 1); run with check=True, a failing script ends the worker
CrawlPage(k) ==
    /\ procs[k].alive /\ procs[k].page <= procs[k].last
    /\ \E ok \in BOOLEAN, title \in page_titles(procs[k].page), now \in Timestamps :
          IF ok
          THEN /\ p_written' = p_written \cup
                      {[worker |-> k, folder |-> script_output_folder(title, page_url(procs[k].page), now)]}
               /\ p_crawled' = p_crawled \cup {[worker |-> k, page |-> procs[k].page]}
               /\ procs' = [procs EXCEPT ![k].page = @ + 1]
          ELSE /\ procs' = [procs EXCEPT ![k].alive = FALSE]
               /\ UNCHANGED <<p_written, p_crawled>>
    /\ UNCHANGED <<TOTAL_PAGES, WORKERS, p_phase, p_w, p_start,
                   dedupeVars, nameVars, crawlVars, mediaVars, recVars>>

CrawlSomePage == \E k \in 1..Len(procs) : CrawlPage(k)

\* main, lines 68-71: every process has ended and main returns
JoinAll ==
    /\ p_phase = "join"
    /\ \A k \in 1..Len(procs) : ~procs[k].alive \/ procs[k].page > procs[k].last
    /\ p_phase' = "done"
    /\ UNCHANGED <<TOTAL_PAGES, WORKERS, p_w, p_start, procs, p_crawled, p_written,
                   dedupeVars, nameVars, crawlVars, mediaVars, recVars>>

NextProc ==
    \/ CrawlOverview
    \/ StartWorker
    \/ AllStarted
    \/ CrawlSomePage
    \/ JoinAll

SpecProc == InitProc /\ [][NextProc]_vars

(***************************************************************************)
(* Properties of the worker processes.                                     *)
(***************************************************************************)
\* the pages of the slice handed to process k
SliceOf(k) == procs[k].first .. procs[k].last

\* C22: the slices handed to the workers follow one another without gap from page 0,
\* are pairwise disjoint and, once all are handed out, cover exactly 0..TOTAL_PAGES; a
\* worker crawls pages of its own slice only, so no page is crawled by two workers
C22_SlicesPartitionPages ==
    /\ procs # <<>> => procs[1].first = 0
    /\ \A k \in 1..(Len(procs) - 1) : procs[k + 1].first = procs[k].last + 1
    /\ \A j \in 1..Len(procs), k \in 1..Len(procs) : j # k => SliceOf(j) \cap SliceOf(k) = {}
    /\ p_phase \in {"join", "done"} /\ procs # <<>> =>
          /\ Len(procs) = WORKERS
          /\ UNION {SliceOf(k) : k \in 1..Len(procs)} = 0..TOTAL_PAGES
    /\ \A c \in p_crawled : c.page \in SliceOf(c.worker)
    /\ \A c \in p_crawled, d \in p_crawled : c.page = d.page => c.worker = d.worker

\* main has returned after three workers crawled the five pages 0..4 in slices of two,
\* two and one page
C22_Witness ==
    /\ p_phase = "done" /\ TOTAL_PAGES = 4 /\ WORKERS = 3
    /\ [k \in 1..Len(procs) |-> <<procs[k].first, procs[k].last>>] = <<<<0, 1>>, <<2, 3>>, <<4, 4>>>>
    /\ {c.page : c \in p_crawled} = 0..4

\* C23: no output folder is written by two different workers
C23_WorkersOwnTheirOutput ==
    \A a \in p_written, b \in p_written :
        (a.worker # 0 /\ b.worker # 0 /\ a.folder = b.folder) => a.worker = b.worker

(***************************************************************************)
(* RecursiveCrawler (recursive_crawler.py): the links files under          *)
(* start_dir are processed one by one, each with an HtmlCrawler of its own, *)
(* and the files written meanwhile are appended to the list being iterated. *)
(***************************************************************************)
MaxListed     == 2      \* URLs listed in one of them
RecDepth      == 1      \* the largest --max-depth of these runs

\* the folders under start_dir that hold a links file when the run starts
StartFolders == <<<< <<"d", "1">> >>, << <<"d", "2">> >>>>
ListedPages  == {PageR, PageX}

Reverse(s) == [i \in 1..Len(s) |-> s[Len(s) + 1 - i]]

\* Path(start_dir).rglob('output_links.json'): the folders that hold a links file
find_links_files(made, order) == IF order = "oldest" THEN made ELSE Reverse(made)

\* line 217, without the test
unprocessed_keeps_all(found, processed) == found

\* line 217: [f for f in new_links_files if f not in self.processed_files]
unprocessed(found, processed) == SelectSeq(found, LAMBDA f : f \notin processed)

\* lines 300-365 of crawler_html.py, once the page is loaded and its folder is named:
\* both files are saved and the links file is read back when the page is expanded.
\* Returns the crawler's state afterwards and the loop over urls_to_crawl that follows
save_page(url, current_depth, output_folder, links_result, st) ==
    LET files1 == save_to_json(makedirs(st.files, output_folder), output_folder,
                               "content", [url |-> url, error |-> FALSE], "ok")
        files2 == save_to_json(files1, output_folder, "links", dedupe_links(links_result), "ok")
    IN  [st |-> [st EXCEPT !.files = files2,
                           !.made = IF output_folder \in Range(@) THEN @ ELSE Append(@, output_folder),
                           !.fetched = Append(@, [url |-> url, depth |-> current_depth])],
         loop |-> [urls |-> IF current_depth < max_depth
                            THEN parse_links_file(files2, output_folder) ELSE <<>>,
                   current_depth |-> current_depth + 1,
                   parent_folder |-> output_folder]]

\* one call crawl_url_recursive(url, current_depth, parent_folder) up to the loop over
\* its links (lines 255-365 of crawler_html.py), when no page load and no file operation
\* fails.  st: the HtmlCrawler's crawled_urls and robots cache, the files, the folders
\* holding a links file, and the pages fetched.  Returns st afterwards and the loop the
\* call enters: [urls, current_depth, parent_folder] of its recursive calls
crawl_one_url(url, current_depth, parent_folder, now, st) ==
    LET verdict == can_fetch(st.cache, respect_robots_txt, url, FALSE)
        no_loop == [urls |-> <<>>, current_depth |-> current_depth + 1, parent_folder |-> parent_folder]
        page    == crawl(site, url, TRUE)
    IN  IF url \in st.crawled THEN [st |-> st, loop |-> no_loop]
        ELSE IF ~verdict.allowed THEN [st |-> [st EXCEPT !.cache = verdict.cache], loop |-> no_loop]
        ELSE IF current_depth > max_depth
             THEN [st |-> [st EXCEPT !.cache = verdict.cache, !.crawled = mark_crawled(@, url)],
                   loop |-> no_loop]
        ELSE save_page(url, current_depth,
                       path_join(parent_folder, resolve_folder_name(get(page.title, <<>>), url, now)),
                       page.links_result,
                       [st EXCEPT !.cache = verdict.cache, !.crawled = mark_crawled(@, url)])

\* crawl_url_recursive carried through to its return.  loops: the loops over
\* urls_to_crawl (lines 367-377) of the calls in progress, innermost first, each with
\* the URLs it has still to pass to a recursive call
RECURSIVE crawl_url_recursive(_, _, _)
crawl_url_recursive(loops, now, st) ==
    IF loops = <<>> THEN st
    ELSE LET top == loops[1]
             r == IF top.urls = <<>> THEN [st |-> st, loop |-> top]
                  ELSE crawl_one_url(top.urls[1], top.current_depth, top.parent_folder, now, st)
             rest == IF top.urls = <<>> THEN Tail(loops)
                     ELSE <<r.loop, [top EXCEPT !.urls = Tail(@)]>> \o Tail(loops)
         IN  crawl_url_recursive(rest, now, r.st)

\* lines 157-187: the loop of process_links_file over the URLs of one links file.
\* rs: the RecursiveCrawler's crawled_urls beside the state of the file's HtmlCrawler
RECURSIVE process_urls(_, _, _, _)
process_urls(urls, parent_dir, now, rs) ==
    IF urls = <<>> THEN rs
    ELSE LET root == <<[urls |-> <<urls[1]>>, current_depth |-> 0, parent_folder |-> parent_dir]>>
             after == IF urls[1] \in rs.r_crawled THEN rs
                      ELSE [r_crawled |-> rs.r_crawled \cup {urls[1]},
                            st |-> crawl_url_recursive(root, now, rs.st)]
         IN  process_urls(Tail(urls), parent_dir, now, after)

\* lines 149-154: the HtmlCrawler made for one links file
new_crawler(files, made) ==
    [crawled |-> {}, cache |-> EmptyMap, files |-> files, made |-> made, fetched |-> <<>>]

\* a links file as crawl_url_recursive leaves it
links_file_of(urls) ==
    [url |-> PageX, has_links |-> TRUE, links |-> [i \in 1..Len(urls) |-> link(urls[i], <<"t">>)]]

InitRec ==
    /\ site \in Sites /\ max_depth \in 0..RecDepth /\ respect_robots_txt \in BOOLEAN
    /\ start_url = PageR /\ crawled_urls = {} /\ robots_cache = EmptyMap /\ run = "idle" /\ stack = <<>>
    /\ fs = EmptyMap /\ open_drivers = 0 /\ faults = 0
    /\ tasks = <<>> /\ fetches = <<>> /\ errors = {} /\ checks = {} /\ events = <<>>
    /\ IdleDedupe /\ IdleName /\ IdleMedia /\ IdleProc
    /\ \E n \in 1..Len(StartFolders) :
        \E lists \in [1..n -> SeqsUpTo(ListedPages, MaxListed)] :
            /\ r_made = SubSeq(StartFolders, 1, n)
            /\ r_fs = [d \in {StartFolders[i] : i \in 1..n} |->
                          LET i == CHOOSE j \in 1..n : StartFolders[j] = d
                          IN  [content |-> <<>>, links |-> <<links_file_of(lists[i])>>]]
            /\ r_listed = UNION {Range(lists[i]) : i \in 1..n}
    /\ r_order \in {"oldest", "newest"}
    /\ r_phase = "idle" /\ links_files = <<>> /\ r_pos = 0
    /\ r_crawled_urls = {} /\ processed_files = {} /\ r_fetched = <<>> /\ r_log = <<>>

\* line 206: links_files = self.find_links_files(start_dir)
StartRecursiveCrawling ==
    /\ r_phase = "idle"
    /\ links_files' = find_links_files(r_made, r_order)
    /\ r_phase' = "loop"
    /\ UNCHANGED <<dedupeVars, nameVars, crawlVars, mediaVars, procVars,
                   r_fs, r_made, r_order, r_pos, r_crawled_urls, processed_files, r_listed, r_fetched, r_log>>

\* lines 132-135 and 214-220: one pass of the loop over a file already processed
SkipProcessedFile ==
    /\ r_phase = "loop" /\ r_pos < Len(links_files)
    /\ links_files[r_pos + 1] \in processed_files
    /\ r_pos' = r_pos + 1
    /\ links_files' = links_files \o unprocessed(find_links_files(r_made, r_order), processed_files)
    /\ UNCHANGED <<dedupeVars, nameVars, crawlVars, mediaVars, procVars,
                   r_fs, r_made, r_order, r_phase, r_crawled_urls, processed_files, r_listed, r_fetched, r_log>>

\* lines 137-189 and 214-220: one pass of the loop over a file not yet processed
ProcessLinksFile ==
    /\ r_phase = "loop" /\ r_pos < Len(links_files)
    /\ links_files[r_pos + 1] \notin processed_files
    /\ \E now \in Timestamps, links_file \in {links_files[r_pos + 1]} :
        \E rs \in {process_urls(parse_links_file(r_fs, links_file), links_file, now,
                                [r_crawled |-> r_crawled_urls, st |-> new_crawler(r_fs, r_made)])} :
            /\ processed_files' = processed_files \cup {links_file}
            /\ r_log' = Append(r_log, links_file)
            /\ r_crawled_urls' = rs.r_crawled
            /\ r_fs' = rs.st.files
            /\ r_made' = rs.st.made
            /\ r_fetched' = r_fetched \o [k \in 1..Len(rs.st.fetched) |->
                                [url |-> rs.st.fetched[k].url, depth |-> rs.st.fetched[k].depth,
                                 file |-> links_file]]
            /\ links_files' = links_files \o unprocessed(find_links_files(rs.st.made, r_order),
                                                         processed_files \cup {links_file})
            /\ r_pos' = r_pos + 1
    /\ UNCHANGED <<dedupeVars, nameVars, crawlVars, mediaVars, procVars, r_order, r_phase, r_listed>>

\* lines 222-229: the list is exhausted
RecursiveCrawlingReturns ==
    /\ r_phase = "loop" /\ r_pos = Len(links_files)
    /\ r_phase' = "done"
    /\ UNCHANGED <<dedupeVars, nameVars, crawlVars, mediaVars, procVars,
                   r_fs, r_made, r_order, links_files, r_pos, r_crawled_urls, processed_files,
                   r_listed, r_fetched, r_log>>

NextRec == StartRecursiveCrawling \/ SkipProcessedFile \/ ProcessLinksFile \/ RecursiveCrawlingReturns

SpecRec == InitRec /\ [][NextRec]_vars

\* C27: no URL is fetched twice in one run of start_recursive_crawling
C27_NoUrlCrawledTwice ==
    \A i \in 1..Len(r_fetched), j \in 1..Len(r_fetched) :
        r_fetched[i].url = r_fetched[j].url => i = j

\* C28: every page fetched is within max_depth links of a URL that a links file
\* listed when the run started
C28_WithinMaxDepthOfListed ==
    \A k \in 1..Len(r_fetched) :
        \E u \in r_listed : r_fetched[k].url \in ReachWithin(u, max_depth)

\* what is left of a run: the URLs process_links_file has not yet handed to a crawler,
\* the links files not yet processed, and the entries of links_files up to the next
\* one of those (up to the end of the list when there is none)
WorkLeft(phase, list, pos, processed, made, crawled) ==
    LET ahead == {k \in (pos + 1)..Len(list) : list[k] \notin processed}
    IN  <<Cardinality(KnownUrls \ crawled),
          Cardinality(Range(made) \ processed),
          IF phase = "done" THEN 0
          ELSE IF ahead = {} THEN Len(list) - pos + 1
          ELSE (CHOOSE k \in ahead : \A j \in ahead : k <= j) - pos>>

LexLess(a, b) ==
    \/ a[1] < b[1]
    \/ a[1] = b[1] /\ a[2] < b[2]
    \/ a[1] = b[1] /\ a[2] = b[2] /\ a[3] < b[3]

\* C29: every pass of the loop of start_recursive_crawling, and its return, takes the
\* run nearer to its end in a well-founded order, so the list is exhausted after
\* finitely many passes; and a links file that is processed was not processed before
C29_RecursiveCrawlingTerminates ==
    [][r_phase = "loop" =>
        /\ LexLess(WorkLeft(r_phase', links_files', r_pos', processed_files', r_made', r_crawled_urls'),
                   WorkLeft(r_phase, links_files, r_pos, processed_files, r_made, r_crawled_urls))
        /\ r_log' # r_log => r_log'[Len(r_log')] \notin Range(r_log)]_vars

\* a run has returned after it processed files written during the run and passed
\* over entries of the list that were processed already
C29_Witness ==
    /\ r_phase = "done" /\ r_pos = Len(links_files)
    /\ Len(links_files) > Cardinality(Range(links_files))
    /\ \E k \in 1..Len(r_log) : r_log[k] \notin Range(StartFolders)
    /\ Range(r_made) \subseteq processed_files

====
